---- MODULE Spec2Model ----
(***************************************************************************)
(* Status reconciliation of the Cloudflare Stream plugin for PayloadCMS.   *)
(*                                                                         *)
(* src/src/index.ts holds three revisions of the plugin.  Each registers   *)
(* an afterChange hook that starts a background poller for a document      *)
(* whose cloudflareStream.status is 'processing':                          *)
(*   "interval"   : lines 539-616,   setInterval, no download URL          *)
(*   "intervalDl" : lines 1405-1499, setInterval, genAndGetDownloadUrl     *)
(*   "timeout"    : lines 1871-1929, setTimeout chain (checkLoop)          *)
(* One record (one streamId) is modelled; its pollers are the closures     *)
(* created by the hook runs for that record.                               *)
(***************************************************************************)
EXTENDS Integers, Sequences, FiniteSets, Bags, TLC

VARIABLES
    variant,        \* which revision of index.ts is installed
    record,         \* the stored cloudflareStream group of the document
    pollers,        \* one entry per poll() closure started by the hook
    event,          \* the handler step that ran last: [op, p]
    overlap,        \* latency regime: ticks of one poller that may be awaiting I/O at once
    followed,       \* how many poll() closures of the record are followed
    updateCalled,   \* history: req.payload.update has been called by a poller
    client,         \* the run of CloudflareClientUploadHandler for one file
    endpoint,       \* the run of the signed-URL endpoint for its request
    calls,          \* the calls the endpoint made to the remote platform
    mapped,         \* per call site, the last remote state it mapped
    deletion,       \* the run of handleStreamDelete
    document,       \* the stored document: whether it exists, its streamId
    op,             \* the update or delete operation under way on it
    requests,       \* the DELETE and upload requests sent for the document
    setup,          \* the run of cloudflareStreamPlugin on the host's config
    polling,        \* the run of the poll utility (utils) or of one status fetch
    handled         \* the run of the adapter's handleUpload

pollVars == <<variant, record, pollers, event, overlap, followed, updateCalled>>
uploadVars == <<client, endpoint, calls>>
handlerVars == <<mapped, deletion>>
lifecycleVars == <<document, op, requests>>
setupVars == <<setup>>
waitVars == <<polling, handled>>
vars == <<variant, record, pollers, event, overlap, followed, updateCalled,
          client, endpoint, calls, mapped, deletion, document, op, requests,
          setup, polling, handled>>

\* what the actions of one part leave alone
notPoll == <<uploadVars, handlerVars, lifecycleVars, setupVars, waitVars>>
notUpload == <<pollVars, handlerVars, lifecycleVars, setupVars, waitVars>>
notHandlers == <<pollVars, uploadVars, lifecycleVars, setupVars, waitVars>>
notLifecycle == <<record, pollers, event, overlap, followed, updateCalled,
                  uploadVars, handlerVars, setupVars, waitVars>>
notSetup == <<record, pollers, event, overlap, followed, updateCalled,
              uploadVars, handlerVars, lifecycleVars, waitVars>>
notWait == <<record, pollers, event, overlap, followed, updateCalled,
             uploadVars, handlerVars, lifecycleVars, setupVars>>

\* ------------------------------------------------------------------------
\* Program constants and model bounds

maxAttempts == 20

\* at most this many ticks of one poller are awaiting I/O at the same time
MaxInFlight == 2
\* timer fires followed beyond maxAttempts
ExtraFires == 2
\* poll() closures followed for the record
MaxPollers == 2

Variants == {"interval", "intervalDl", "timeout"}

IsInterval(v) == v \in {"interval", "intervalDl"}

\* ------------------------------------------------------------------------
\* Remote answers

\* videoData.status.state as sent by the remote platform
RemoteStates == {"queued", "inprogress", "ready", "error", "pendingupload"}

\* videoData.duration / thumbnail / size: absent ("none") or present
RemoteMeta == {"none", "remote"}

\* what one GET /stream/{uid} can do
QueryFailures == {"transport", "non2xx", "successFalse"}

QueryAnswers ==
    [kind : {"ok"}, state : RemoteStates, meta : RemoteMeta]
    \cup [kind : QueryFailures, state : {"queued"}, meta : {"none"}]

\* fetchVideoStatus: the three-valued status
MapStatus(state) ==
    IF state = "ready" THEN "ready"
    ELSE IF state = "error" THEN "error"
    ELSE "processing"

\* fetchVideoStatus throws on !response.ok and on !result.success; fetch
\* itself rejects on a transport fault
QueryThrows(answer) == answer.kind \in QueryFailures

\* JavaScript a || b on values whose falsy case is "none" or ""
Or(a, b) == IF a \in {"none", ""} THEN b ELSE a

\* ------------------------------------------------------------------------
\* Ticks in flight: a tick is one run of the timer callback, suspended at
\* one of its awaits

QueryTick ==
    [phase |-> "query", status |-> "processing", meta |-> "none",
     downloadUrl |-> "none"]

DownloadTick(meta) ==
    [phase |-> "download", status |-> "ready", meta |-> meta,
     downloadUrl |-> "none"]

UpdateTick(status, meta, url) ==
    [phase |-> "update", status |-> status, meta |-> meta,
     downloadUrl |-> url]

Urls == {"none", "", "old", "new"}

DownloadTicks == {DownloadTick(m) : m \in RemoteMeta}

UpdateTicks ==
    {UpdateTick(st, m, u) : st \in {"ready", "error"}, m \in RemoteMeta, u \in Urls}

One(t) == SetToBag({t})

InFlight(p) == BagCardinality(pollers[p].ticks)

TicksIn(p, phase) ==
    {t \in BagToSet(pollers[p].ticks) : t.phase = phase}

\* ------------------------------------------------------------------------
\* The hook

ShouldPollAnyStatus(doc) == doc.streamId # "none"

\* if (doc?.cloudflareStream?.streamId && doc.cloudflareStream.status === 'processing')
ShouldPoll(doc) == doc.streamId # "none" /\ doc.status = "processing"

\* poll(): the closure state right after the hook returned.  setInterval
\* only registers the timer, and poll() adds a beforeExit listener to the
\* process; the setTimeout revision runs checkLoop at once up to its first
\* await
NewPoller(v, doc) ==
    IF IsInterval(v)
    THEN [attempts |-> 0, timer |-> TRUE, ticks |-> EmptyBag, doc |-> doc,
          wrote |-> FALSE, onlyProcessing |-> TRUE, beforeExit |-> TRUE]
    ELSE [attempts |-> 1, timer |-> FALSE, ticks |-> One(QueryTick),
          doc |-> doc, wrote |-> FALSE, onlyProcessing |-> TRUE,
          beforeExit |-> FALSE]

\* the afterChange hook on a stored document
StartPollers(ps, doc) ==
    IF ShouldPoll(doc) /\ Len(ps) < followed
    THEN Append(ps, NewPoller(variant, doc))
    ELSE ps

\* ------------------------------------------------------------------------
\* checkStatus and the timer callback

\* let downloadUrl = doc.cloudflareStream.downloadUrl || ''
\* a fallback that drops the URL of the hook's document
FallbackUrlEmpty(doc) == ""

FallbackUrl(doc) == Or(doc.downloadUrl, "")

\* a merge that forgets the new status and metadata
MergeDataStale(v, doc, t) == doc

\* a merge that leaves out ...doc.cloudflareStream
MergeDataNoSpread(v, doc, t) ==
    [streamId |-> "none", streamUrl |-> "none", uploadedAt |-> "none",
     status |-> t.status, duration |-> t.meta, thumbnailUrl |-> t.meta,
     size |-> t.meta, downloadUrl |-> t.downloadUrl]

\* the data handed to req.payload.update
MergeData(v, doc, t) ==
    IF v = "interval"
    THEN [doc EXCEPT !.status = t.status, !.duration = t.meta,
                     !.thumbnailUrl = t.meta, !.size = t.meta]
    ELSE IF v = "intervalDl"
    THEN [doc EXCEPT !.status = t.status, !.duration = t.meta,
                     !.thumbnailUrl = t.meta, !.size = t.meta,
                     !.downloadUrl = t.downloadUrl]
    ELSE [doc EXCEPT !.status = t.status,
                     !.duration = Or(t.meta, doc.duration),
                     !.thumbnailUrl = Or(t.meta, doc.thumbnailUrl),
                     !.size = Or(t.meta, doc.size)]

\* the collection's beforeChange hook on an update without a file: only the
\* setTimeout revision registers one, and it puts the stored group back
BeforeChange(v, stored, data) ==
    IF v = "timeout" /\ stored.streamId # "none" THEN stored ELSE data

\* an off-by-one budget test
BudgetExhaustedLate(attempts) == attempts > maxAttempts

\* if (shouldStop || attempts >= maxAttempts) clearInterval(timer)
BudgetExhausted(attempts) == attempts >= maxAttempts

\* if (attempts < maxAttempts) setTimeout(checkLoop, interval)
MayReschedule(attempts) == attempts < maxAttempts

\* a catch that never asks to stop
CatchNeverStops(v) == FALSE

\* the catch of checkStatus: the setInterval revisions return true (stop),
\* the setTimeout revision only logs
CatchStops(v) == IsInterval(v)

\* a timer callback that ignores shouldStop
TimerAfterTickIgnoringStop(v, q, shouldStop) ==
    IF IsInterval(v)
    THEN IF BudgetExhausted(q.attempts) THEN FALSE ELSE q.timer
    ELSE MayReschedule(q.attempts)

\* the timer after a tick of poller q ended with the given shouldStop
TimerAfterTick(v, q, shouldStop) ==
    IF IsInterval(v)
    THEN IF shouldStop \/ BudgetExhausted(q.attempts) THEN FALSE ELSE q.timer
    ELSE MayReschedule(q.attempts)

\* ------------------------------------------------------------------------
\* Client upload: the client handler and the signed-URL endpoint

\* const MAX_FILE_SIZE = 200 * 1024 * 1024
MAX_FILE_SIZE == 209715200

FileSizes == {0, MAX_FILE_SIZE - 1, MAX_FILE_SIZE, MAX_FILE_SIZE + 1}

\* a size test that sends a file of exactly 200 MiB through tus
useTusInclusive(size) == size >= MAX_FILE_SIZE

\* const useTus = file.size > MAX_FILE_SIZE
useTus(size) == size > MAX_FILE_SIZE

\* the headers of the issuance request besides Content-Type
NoHeaders == [h \in {} |-> ""]

IssuanceHeaders(tus, size) ==
    IF tus
    THEN [h \in {"X-Use-Tus", "Upload-Length"} |->
             IF h = "X-Use-Tus" THEN "true" ELSE ToString(size)]
    ELSE NoHeaders

\* req.headers.get(name); null is written ""
HeaderGet(headers, name) ==
    IF name \in DOMAIN headers THEN headers[name] ELSE ""

\* an endpoint that never takes the tus branch
isTusUploadNever(headers) == FALSE

\* const isTusUpload = req.headers.get('X-Use-Tus') === 'true'
isTusUpload(headers) == HeaderGet(headers, "X-Use-Tus") = "true"

\* collections registered in the plugin options, and slugs a request names
Collections == {"videos"}
Slugs == {"videos", "posts"}

\* req.user: null or a logged-in user
Users == {"anonymous", "editor"}

\* an access predicate that admits every request
defaultAccessOpen(user) == TRUE

\* const defaultAccess = ({ req }) => !!req.user
defaultAccess(user) == user # "anonymous"

\* the access option: absent (default), or a custom predicate
AccessKinds == {"default", "allowAll", "denyAll"}

access(kind, collectionSlug, user) ==
    CASE kind = "default" -> defaultAccess(user)
      [] kind = "allowAll" -> TRUE
      [] OTHER -> FALSE

\* videoOptions.allowedOrigins as configured
AllowedOriginsOptions ==
    {[isArray |-> FALSE, items |-> << >>],
     [isArray |-> TRUE, items |-> << >>],
     [isArray |-> TRUE, items |-> <<"", " ">>],
     [isArray |-> TRUE, items |-> <<"https://Example.com/a", "example.com">>]}

\* null is written ""
sanitizeAllowedOrigin(value) ==
    CASE value = "https://Example.com/a" -> "example.com"
      [] value = "example.com" -> "example.com"
      [] OTHER -> ""

RECURSIVE Normalize(_, _)
Normalize(value, result) ==
    IF value = << >>
    THEN result
    ELSE LET normalized == sanitizeAllowedOrigin(Head(value))
             seen == {result[i] : i \in 1..Len(result)}
         IN Normalize(Tail(value),
                      IF normalized = "" \/ normalized \in seen
                      THEN result
                      ELSE Append(result, normalized))

\* undefined is written << >>: the function never returns an empty array
normalizeAllowedOrigins(value) ==
    IF ~value.isArray THEN << >> ELSE Normalize(value.items, << >>)

\* a follow-up call for every issuance
OriginsNeededAlways(allowedOrigins) == TRUE

\* if (allowedOrigins && allowedOrigins.length > 0)
OriginsNeeded(allowedOrigins) == Len(allowedOrigins) > 0

\* The Location header of the tus creation response: the path segments of
\* the URL and what follows the last one.  "hex32" is a segment of 32
\* characters of [a-f0-9], "hex33" one of 33, "HEX32" one of 32 with
\* upper-case letters.
MaxSegments == 3
Segments == {"tus", "hex32", "hex33", "HEX32", "media"}
Tails == {"end", "query", "fragment"}
Paths == UNION {[1..n -> Segments] : n \in 1..MaxSegments}
TusUrls == [segs : Paths, tail : Tails]

\* no Location header
NoLocation == [segs |-> << >>, tail |-> "end"]

\* an extraction that takes any 32-hex segment of the path
extractAnySegment(tusUrl) ==
    IF \E i \in 1..Len(tusUrl.segs) : tusUrl.segs[i] = "hex32"
    THEN "hex32"
    ELSE ""

\* tusUrl.match(/\/tus\/([a-f0-9]{32})(?:\?|$)/)
extractStreamIdFromTusUrl(tusUrl) ==
    LET n == Len(tusUrl.segs) IN
    IF /\ n >= 2
       /\ tusUrl.segs[n - 1] = "tus"
       /\ tusUrl.segs[n] = "hex32"
       /\ tusUrl.tail \in {"end", "query"}
    THEN tusUrl.segs[n]
    ELSE ""

\* what a remote call answers: fetch throws, or a response with its ok
\* flag, the success flag of its JSON body and its Location header
Pending == [kind |-> "pending", ok |-> FALSE, success |-> FALSE, location |-> NoLocation]
Throws == [kind |-> "throws", ok |-> FALSE, success |-> FALSE, location |-> NoLocation]
Answered(ok, success, location) ==
    [kind |-> "response", ok |-> ok, success |-> success, location |-> location]

TusAnswers ==
    {Throws, Answered(FALSE, FALSE, NoLocation), Answered(TRUE, FALSE, NoLocation)}
        \cup {Answered(TRUE, FALSE, u) : u \in TusUrls}

JsonAnswers ==
    {Throws, Answered(FALSE, FALSE, NoLocation),
     Answered(TRUE, FALSE, NoLocation), Answered(TRUE, TRUE, NoLocation)}

\* the follow-up fails only on a non-2xx status
OriginsFailedByStatus(answer) == answer.kind = "throws" \/ ~answer.ok

\* setAllowedOriginsForStream: if (!response.ok || !payload?.success) throw
OriginsFailed(answer) ==
    answer.kind = "throws" \/ ~answer.ok \/ ~answer.success

\* the response of the endpoint: an error, or a JSON body whose absent
\* keys are written "" and NoLocation
NoResponse ==
    [ok |-> FALSE, error |-> "none", uploadURL |-> "",
     tusEndpoint |-> NoLocation, streamId |-> ""]

Failure(error) == [NoResponse EXCEPT !.error = error]

TusTarget(tusUploadURL, streamId) ==
    [NoResponse EXCEPT !.ok = TRUE, !.tusEndpoint = tusUploadURL,
                       !.streamId = streamId]

DirectTarget ==
    [NoResponse EXCEPT !.ok = TRUE, !.uploadURL = "uploadURL", !.streamId = "uid"]

\* the transfer the client starts for a response
ChooseTransfer(tus, responseData) ==
    IF tus /\ responseData.tusEndpoint # NoLocation THEN "tus"
    ELSE IF responseData.uploadURL # "" THEN "direct"
    ELSE "none"

\* what the handler returns
NoResult == [streamId |-> "", status |-> ""]

ClientIdle ==
    [pc |-> "idle", size |-> 0, collectionSlug |-> "videos", useTus |-> FALSE,
     uploadType |-> "direct", request |-> NoHeaders, transfer |-> "none",
     uploadSessionEstablished |-> FALSE, errorNotified |-> FALSE,
     posts |-> 0, xhr |-> [kind |-> "pending", status |-> 0],
     transferred |-> FALSE, failedAt |-> "none",
     onError |-> << >>, onSuccess |-> << >>, returned |-> NoResult]

\* how the issuance fetch reaches the client: its JSON body parsed, or
\* fetch rejects, or response.json() rejects
Arrivals == {"parsed", "fetchThrows", "jsonThrows"}

\* what the XMLHttpRequest of the direct transfer ends with: onerror
\* (status 0), or onload with a status
XhrStatuses == {200, 201, 299, 300, 404, 500}
XhrAnswers ==
    {[kind |-> "error", status |-> 0]} \cup [kind : {"load"}, status : XhrStatuses]

\* a status test that takes 300 for a success
XhrSucceededInclusive(status) == status >= 200 /\ status <= 300

\* if (xhr.status >= 200 && xhr.status < 300) resolve()
XhrSucceeded(status) == status >= 200 /\ status < 300

\* the caller's onSuccess callback: not given, returns, or throws
Callbacks == {"none", "returns", "throws"}

\* a stage that is always the default of emitError
ErrorStageDefault(established) == "upload"

\* uploadSessionEstablished ? 'upload' : 'generate-upload-url'
ErrorStage(established) ==
    IF established THEN "upload" ELSE "generate-upload-url"

\* emitError(error, stage)
EmitError(c, stage) ==
    [c EXCEPT !.errorNotified = TRUE, !.onError = Append(@, stage)]

\* the outer catch: if (!errorNotified) emitError(...); throw error
OuterCatch(c, at) ==
    [(IF c.errorNotified
      THEN c
      ELSE EmitError(c, ErrorStage(c.uploadSessionEstablished)))
     EXCEPT !.pc = "failed", !.failedAt = at]

\* emitSuccess(streamId), the callback given
EmitSuccess(c, streamId) == [c EXCEPT !.onSuccess = Append(@, streamId)]

EndpointOptions == [access : AccessKinds, allowedOrigins : AllowedOriginsOptions]

EndpointIdle(options) ==
    [pc |-> "idle", options |-> options, user |-> "anonymous",
     isTusUpload |-> FALSE, allowedOrigins |-> << >>, streamId |-> "",
     response |-> NoResponse]

DefaultOptions ==
    [access |-> "default", allowedOrigins |-> [isArray |-> FALSE, items |-> << >>]]

\* no client upload is under way
NoUpload ==
    /\ client = ClientIdle
    /\ endpoint = EndpointIdle(DefaultOptions)
    /\ calls = << >>

\* ------------------------------------------------------------------------
\* Server handlers: status mapping at its call sites, handleStreamDelete

\* result.result of the remote platform: its status object may be absent
VideoDatas ==
    [hasStatus : {TRUE}, state : RemoteStates \cup {"downloading", ""}]
        \cup {[hasStatus |-> FALSE, state |-> ""]}

\* checkVideoStatus.fetchVideoStatus: videoData.status.state
checkVideoStatusMaps(videoData) ==
    IF ~videoData.hasStatus THEN "throws" ELSE MapStatus(videoData.state)

\* a mapping that knows 'ready' only
handleUploadMapsReadyOnly(videoData) ==
    IF videoData.hasStatus /\ videoData.state = "ready"
    THEN "ready"
    ELSE "processing"

\* handleUpload: videoData.status?.state
handleUploadMaps(videoData) ==
    IF videoData.hasStatus /\ videoData.state = "ready"
    THEN "ready"
    ELSE IF videoData.hasStatus /\ videoData.state = "error"
    THEN "error"
    ELSE "processing"

\* handleStreamUpload: result.result.status.state
handleStreamUploadMaps(videoData) ==
    IF ~videoData.hasStatus
    THEN "throws"
    ELSE IF videoData.state = "ready"
    THEN "ready"
    ELSE IF videoData.state = "error"
    THEN "error"
    ELSE "processing"

Sites == {"checkVideoStatus", "handleUpload", "handleStreamUpload"}

NotMapped == [applied |-> FALSE, videoData |-> [hasStatus |-> FALSE, state |-> ""],
              status |-> ""]

Mapped(videoData, status) ==
    [applied |-> TRUE, videoData |-> videoData, status |-> status]

\* options.accountId || process.env.CLOUDFLARE_ACCOUNT_ID, and the token
AccountIds == {"", "account"}
ApiTokens == {"", "token"}
StreamIds == {"", "sid"}

\* what the DELETE answers: fetch throws (status 0), or a response status
DeleteStatuses == {200, 204, 400, 401, 404, 500}
DeleteAnswers ==
    {[kind |-> "throws", status |-> 0]}
        \cup [kind : {"response"}, status : DeleteStatuses]

\* response.ok
ResponseOk(status) == status \in 200..299

\* a handler for which a missing video is an error
NotFoundNever(status) == FALSE

\* if (response.status === 404) return
NotFound(status) == status = 404

DeletionIdle ==
    [pc |-> "idle", accountId |-> "", apiToken |-> "", streamId |-> "",
     requests |-> 0, answer |-> [kind |-> "pending", status |-> 0]]

\* no handler has run
NoHandlers ==
    /\ mapped = [site \in Sites |-> NotMapped]
    /\ deletion = DeletionIdle

\* ------------------------------------------------------------------------
\* Document lifecycle: updates and removal of a document with a video

\* operations followed on the document
MaxOps == 3

\* the stream ids: 0 is no streamId, n > 0 the n-th stream created
NoStream == 0

\* the streamId of a group supplied by the caller of an update, which is
\* not one the plugin stored
Foreign == -1

\* data.cloudflareStream of an update: absent, the stored group sent
\* back, or a group with values of the caller's own
DataGroups == {"absent", "stored", "supplied"}

\* data.cloudflareStream?.streamId
DataStreamId(group, stored) ==
    IF group = "stored" THEN stored
    ELSE IF group = "supplied" THEN Foreign
    ELSE NoStream

\* an update without a file and without any beforeChange hook
PlainUpdateStoresIncoming(v, group, stored) ==
    IF group = "absent" THEN stored ELSE DataStreamId(group, stored)

\* the streamId of the group stored by an update without a file: data
\* without the group leaves the stored one; the hooks revision replaces
\* data.cloudflareStream by existingDoc.cloudflareStream when that exists;
\* otherwise the incoming group is stored
PlainUpdateStores(v, group, stored) ==
    IF group = "absent" THEN stored
    ELSE IF v = "timeout" /\ stored # NoStream THEN stored
    ELSE DataStreamId(group, stored)

\* a hook that deletes the old video on every update that names it
ReplacesOldVideoAlways(v, hasFile, oldStreamId) ==
    v = "timeout" /\ oldStreamId # NoStream

\* beforeChangeHook: if (uploadFile && ...) { if (operation === 'update' &&
\* data.cloudflareStream?.streamId) await handleStreamDelete(...) }
ReplacesOldVideo(v, hasFile, oldStreamId) ==
    v = "timeout" /\ hasFile /\ oldStreamId # NoStream

\* an adapter whose handleDelete is a no-op in every revision
HandleDeleteNoop(v, streamId) == FALSE

\* handleDelete of the storage adapter: the first revision calls
\* handleStreamDelete for a doc with a streamId, the second only logs
HandleDeleteIssues(v, streamId) == v = "interval" /\ streamId # NoStream

\* a beforeDeleteHook that goes on after a failed lookup or custom hook
BeforeDeleteIssuesAlways(v, found, custom, streamId) == v = "timeout"

\* beforeDeleteHook: findByID, the streamId test, pluginOptions.beforeDelete,
\* handleStreamDelete, all inside one try
BeforeDeleteIssues(v, found, custom, streamId) ==
    /\ v = "timeout"
    /\ found
    /\ streamId # NoStream
    /\ custom # "throws"

CustomHooks == {"none", "returns", "throws"}

\* a request to the remote platform, with the operation that sent it
Request(kind, streamId, o) ==
    [kind |-> kind, streamId |-> streamId, op |-> o.kind, n |-> o.n,
     hasFile |-> o.hasFile]

OpIdle(n) ==
    [kind |-> "none", phase |-> "idle", n |-> n, hasFile |-> FALSE,
     stored |-> NoStream, outcome |-> "none", group |-> "absent"]

\* no operation on the document is followed
NoLifecycle ==
    /\ document = [exists |-> TRUE, streamId |-> NoStream, created |-> 0]
    /\ op = OpIdle(0)
    /\ requests = << >>

\* ------------------------------------------------------------------------
\* Plugin setup: cloudflareStreamPlugin(pluginOptions)(incomingConfig)

\* a credential as an option or an environment variable: undefined, the
\* empty string, or a value
Credentials == {"none", "", "set"}

\* the credential setup tests: the option, and in the hooks revision the
\* environment variable when the option is falsy
SetupCredential(v, option, env) ==
    IF v = "timeout" THEN Or(option, env) ELSE option

CredentialsMissingAccountOnly(accountId, apiToken) ==
    accountId \in {"none", ""}

\* !accountId || !apiToken
CredentialsMissing(accountId, apiToken) ==
    accountId \in {"none", ""} \/ apiToken \in {"none", ""}

\* the early returns before the credentials are looked at: a disabled
\* plugin, and in the hooks revision an empty list of collections
SetupSkipped(v, enabled, hasCollections) ==
    ~enabled \/ (v = "timeout" /\ ~hasCollections)

SetupIdle ==
    [pc |-> "idle", enabled |-> TRUE, hasCollections |-> TRUE,
     accountId |-> "none", apiToken |-> "none",
     logged |-> FALSE, outcome |-> "none"]

\* setup is not followed
NoSetup == setup = SetupIdle

\* ------------------------------------------------------------------------
\* The poll utility, checkVideoStatus, genAndGetDownloadUrl, handleUpload

\* options?.maxAttempts || 12
DefaultMaxAttempts == 12
\* the largest maxAttempts option a direct call of poll is followed with;
\* 0 stands for an option that is undefined or 0 (both falsy)
MaxAttemptsOption == 3

\* const maxAttempts = options?.maxAttempts || 12
ResolveMaxAttempts(option) ==
    IF option = 0 THEN DefaultMaxAttempts ELSE option

\* what one run of the callback does: { success: true }, { success:
\* false }, or it throws
CallbackOutcomes == {"success", "retry", "throws"}

\* the callback checkVideoStatus hands to poll: fetchVideoStatus throws on
\* a failed query; 'ready' is success, 'error' throws, else poll on
StatusCallback(answer) ==
    IF QueryThrows(answer) THEN "throws"
    ELSE IF MapStatus(answer.state) = "ready" THEN "success"
    ELSE IF MapStatus(answer.state) = "error" THEN "throws"
    ELSE "retry"

\* GET /stream/{uid}/downloads as seen by genAndGetDownloadUrl's callback
DownloadAnswers == {"transport", "non2xx", "pending", "ready"}

\* the callback genAndGetDownloadUrl hands to poll
DownloadCallback(answer) ==
    IF answer = "transport" THEN "throws"
    ELSE IF answer = "ready" THEN "success"
    ELSE "retry"

\* who called: poll directly ("generic"), checkVideoStatus with
\* waitUntilReady ("status") or without ("statusOnce", no poll at all),
\* genAndGetDownloadUrl's wait for the download ("downloads")
PollKinds == {"generic", "status", "statusOnce", "downloads"}

PollIdle ==
    [pc |-> "idle", kind |-> "generic", maxAttempts |-> 0, attempts |-> 0,
     calls |-> 0, waits |-> 0, throws |-> 0, errorAt |-> 0, last |-> "none",
     outcome |-> "none"]

WaitsBeforeEveryAttempt(attempts) == TRUE

\* if (attempts > 0) await new Promise(setTimeout(resolve, interval))
WaitsBefore(attempts) == attempts > 0

\* attempts++ and the callback is invoked
Attempt(w) ==
    [w EXCEPT !.pc = "calling", !.attempts = @ + 1, !.calls = @ + 1]

\* the head of the while loop: leave it with the timeout error, wait for
\* the interval, or make the attempt at once
LoopHead(w) ==
    IF ~(w.attempts < w.maxAttempts)
    THEN [w EXCEPT !.pc = "ended", !.outcome = "timeout"]
    ELSE IF WaitsBefore(w.attempts)
    THEN [w EXCEPT !.pc = "waiting", !.waits = @ + 1]
    ELSE Attempt(w)

\* poll(callback, options) up to its first await
PollBegin(kind, option) ==
    LoopHead([PollIdle EXCEPT !.kind = kind,
                              !.maxAttempts = ResolveMaxAttempts(option)])

CallbackEndsOnThrow(w, outcome) ==
    IF outcome = "success"
    THEN [w EXCEPT !.pc = "ended", !.outcome = "returned", !.last = outcome]
    ELSE IF outcome = "throws"
    THEN [w EXCEPT !.pc = "ended", !.outcome = "callbackError",
                   !.last = outcome, !.throws = @ + 1]
    ELSE LoopHead([w EXCEPT !.last = outcome])

\* the callback has settled inside poll's try: success returns the
\* result, a throw is caught and logged, and the loop goes on
CallbackSettled(w, outcome) ==
    IF outcome = "success"
    THEN [w EXCEPT !.pc = "ended", !.outcome = "returned", !.last = outcome]
    ELSE LoopHead([w EXCEPT !.last = outcome,
                            !.throws = IF outcome = "throws" THEN @ + 1 ELSE @])

\* checkVideoStatus without waitUntilReady: one fetchVideoStatus, whose
\* error is logged and rethrown
FetchOnce ==
    [PollIdle EXCEPT !.pc = "calling", !.kind = "statusOnce", !.calls = 1]

FetchOnceSettled(w, answer) ==
    [w EXCEPT !.pc = "ended", !.last = IF QueryThrows(answer) THEN "throws" ELSE "success",
              !.outcome = IF QueryThrows(answer) THEN "callbackError"
                          ELSE "returned"]

\* the first attempt at which a status query reported the state 'error'
NoteError(w, answer) ==
    IF ~QueryThrows(answer) /\ answer.state = "error" /\ w.errorAt = 0
    THEN [w EXCEPT !.errorAt = w.attempts]
    ELSE w

\* the detail query of handleUpload: GET /stream/{uid}
DetailAnswers ==
    [kind : {"ok"}, videoData : VideoDatas]
        \cup [kind : {"non2xx", "transport"},
              videoData : {[hasStatus |-> FALSE, state |-> ""]}]

\* POST /stream/{uid}/downloads: a failure, a download that is ready, or
\* one still being prepared
DownloadsPostAnswers == {"fails", "ready", "pending"}

\* data as handleUpload received it
Unchanged ==
    [changed |-> FALSE, streamId |-> "none", status |-> "none",
     downloadUrl |-> "none"]

HandleIdle ==
    [pc |-> "idle", streamId |-> "none", status |-> "none", queries |-> 0,
     calls |-> 0, failed |-> "none", data |-> Unchanged]

\* neither poll nor handleUpload is followed
NoWait == polling = PollIdle /\ handled = HandleIdle

ProcessingKeepsStatus(h, at) ==
    [h EXCEPT !.pc = "returned", !.failed = at,
              !.data = [changed |-> TRUE, streamId |-> h.streamId,
                        status |-> h.status, downloadUrl |-> "none"]]

\* the catch of handleUpload: the default group with status 'processing'
Processing(h, at) ==
    [h EXCEPT !.pc = "returned", !.failed = at,
              !.data = [changed |-> TRUE, streamId |-> h.streamId,
                        status |-> "processing", downloadUrl |-> "none"]]

\* the end of handleUpload's try: the group built from the detail query,
\* then options.afterUpload, whose exception lands in the same catch
Complete(h, url, custom) ==
    IF custom = "throws"
    THEN Processing(h, "afterUpload")
    ELSE [h EXCEPT !.pc = "returned",
                   !.data = [changed |-> TRUE, streamId |-> h.streamId,
                             status |-> h.status, downloadUrl |-> url]]

\* one more remote call by handleUpload, a status query of the
\* download-URL step or another call
Called(h, isStatusQuery) ==
    [h EXCEPT !.calls = @ + 1,
              !.queries = IF isStatusQuery THEN @ + 1 ELSE @]

\* ------------------------------------------------------------------------
\* Initial state: the document has just been created by an upload

InitialRecords ==
    [streamId : {"sid"}, streamUrl : {"watch"}, uploadedAt : {"t1"},
     status : {"processing"},
     duration : {"none", "stored"}, thumbnailUrl : {"none"}, size : {"none"},
     downloadUrl : {"none", "old"}]

\* the group handleUpload stores when a new file replaces the video
ReplacedRecord ==
    [streamId |-> "sid2", streamUrl |-> "watch2", uploadedAt |-> "t2",
     status |-> "processing", duration |-> "none", thumbnailUrl |-> "none",
     size |-> "none", downloadUrl |-> "none"]

Created ==
    /\ variant \in Variants
    /\ record \in InitialRecords
    /\ pollers = << >>
    /\ event = [op |-> "create", p |-> 0]
    /\ updateCalled = FALSE
    /\ NoUpload
    /\ NoHandlers
    /\ NoLifecycle
    /\ NoSetup
    /\ NoWait

\* the poller of the created document, whose status query, download wait
\* or update may outlast the polling interval
Init == Created /\ overlap = MaxInFlight /\ followed = 1

\* every poller the hook starts for the record (for the create, for later
\* saves, and for the reconciler's own update) after a client upload, each
\* tick settling before the timer fires again
InitPrompt ==
    /\ Created
    /\ record.duration = "none" /\ record.downloadUrl = "none"
    /\ overlap = 1 /\ followed = MaxPollers

\* ------------------------------------------------------------------------
\* Actions

\* the afterChange hook of the create operation
HookOnCreate ==
    /\ event.op = "create"
    /\ pollers' = StartPollers(pollers, record)
    /\ event' = [op |-> "hook", p |-> Len(pollers')]
    /\ UNCHANGED <<variant, record, overlap, followed, updateCalled>>
    /\ UNCHANGED notPoll

\* another save of the same document that carries no file and leaves the
\* cloudflareStream group as stored, followed by the afterChange hook
Edit ==
    /\ event.op # "create"
    /\ Len(pollers) < followed
    /\ ShouldPoll(record)
    /\ pollers' = StartPollers(pollers, record)
    /\ event' = [op |-> "edit", p |-> Len(pollers')]
    /\ UNCHANGED <<variant, record, overlap, followed, updateCalled>>
    /\ UNCHANGED notPoll

\* the timer fires and the callback runs up to its first await
TimerFire(p) ==
    /\ pollers[p].timer
    /\ pollers[p].attempts < maxAttempts + ExtraFires
    /\ InFlight(p) < overlap
    /\ IF IsInterval(variant)
       THEN pollers' = [pollers EXCEPT
                ![p].attempts = @ + 1,
                ![p].ticks = @ (+) One(QueryTick)]
       ELSE IF pollers[p].attempts >= maxAttempts
            THEN pollers' = [pollers EXCEPT ![p].timer = FALSE]
            ELSE pollers' = [pollers EXCEPT
                     ![p].timer = FALSE,
                     ![p].attempts = @ + 1,
                     ![p].ticks = @ (+) One(QueryTick)]
    /\ event' = [op |-> "fire", p |-> p]
    /\ UNCHANGED <<variant, record, overlap, followed, updateCalled>>
    /\ UNCHANGED notPoll

\* await checkVideoStatus(...) settles
QueryReturns(p, answer) ==
    LET q == pollers[p]
        rest == q.ticks (-) One(QueryTick)
        status == MapStatus(answer.state)
    IN
    /\ BagIn(QueryTick, q.ticks)
    /\ IF QueryThrows(answer)
       THEN /\ pollers' = [pollers EXCEPT
                   ![p].ticks = rest,
                   ![p].onlyProcessing = FALSE,
                   ![p].timer = TimerAfterTick(variant, q, CatchStops(variant))]
            /\ event' = [op |-> "queryFail", p |-> p]
            /\ UNCHANGED updateCalled
       ELSE IF status = "processing"
       THEN /\ pollers' = [pollers EXCEPT
                   ![p].ticks = rest,
                   ![p].timer = TimerAfterTick(variant, q, FALSE)]
            /\ event' = [op |-> "queryOk", p |-> p]
            /\ UNCHANGED updateCalled
       ELSE IF variant = "intervalDl" /\ status = "ready"
       THEN /\ pollers' = [pollers EXCEPT
                   ![p].ticks = rest (+) One(DownloadTick(answer.meta)),
                   ![p].onlyProcessing = FALSE]
            /\ event' = [op |-> "queryOk", p |-> p]
            /\ UNCHANGED updateCalled
       ELSE /\ pollers' = [pollers EXCEPT
                   ![p].ticks = rest (+) One(UpdateTick(status, answer.meta,
                                     IF variant = "intervalDl"
                                     THEN FallbackUrl(q.doc) ELSE "none")),
                   ![p].onlyProcessing = FALSE]
            /\ event' = [op |-> "queryOk", p |-> p]
            /\ updateCalled' = TRUE
    /\ UNCHANGED <<variant, record, overlap, followed>>
    /\ UNCHANGED notPoll

\* await genAndGetDownloadUrl(...) settles: a URL, or a throw that the
\* inner try/catch swallows
DownloadReturns(p, t, ok) ==
    LET q == pollers[p]
        url == IF ok THEN "new" ELSE FallbackUrl(q.doc)
    IN
    /\ t.phase = "download"
    /\ BagIn(t, q.ticks)
    /\ pollers' = [pollers EXCEPT
           ![p].ticks = (@ (-) One(t)) (+) One(UpdateTick(t.status, t.meta, url))]
    /\ event' = [op |-> IF ok THEN "downloadOk" ELSE "downloadFail", p |-> p]
    /\ updateCalled' = TRUE
    /\ UNCHANGED <<variant, record, overlap, followed>>
    /\ UNCHANGED notPoll

\* await req.payload.update(...) settles
UpdateReturns(p, t, ok) ==
    LET q == pollers[p]
        rest == q.ticks (-) One(t)
        stored == BeforeChange(variant, record, MergeData(variant, q.doc, t))
    IN
    /\ t.phase = "update"
    /\ BagIn(t, q.ticks)
    /\ IF ok
       THEN /\ record' = stored
            /\ pollers' = StartPollers(
                   [pollers EXCEPT
                       ![p].ticks = rest,
                       ![p].wrote = TRUE,
                       ![p].timer = TimerAfterTick(variant, q, TRUE)],
                   stored)
            /\ event' = [op |-> "updateOk", p |-> p]
       ELSE /\ record' = record
            /\ pollers' = [pollers EXCEPT
                   ![p].ticks = rest,
                   ![p].timer = TimerAfterTick(variant, q, CatchStops(variant))]
            /\ event' = [op |-> "updateFail", p |-> p]
    /\ UNCHANGED <<variant, overlap, followed, updateCalled>>
    /\ UNCHANGED notPoll

Next ==
    \/ HookOnCreate
    \/ \E p \in 1..Len(pollers) : TimerFire(p)
    \/ \E p \in 1..Len(pollers), answer \in QueryAnswers : QueryReturns(p, answer)
    \/ \E p \in 1..Len(pollers), t \in DownloadTicks, ok \in BOOLEAN :
           DownloadReturns(p, t, ok)
    \/ \E p \in 1..Len(pollers), t \in UpdateTicks, ok \in BOOLEAN :
           UpdateReturns(p, t, ok)

NextEdits ==
    \/ Next
    \/ Edit

\* another writer saves the same document with a new file while a poller
\* of the old video is running: handleUpload stores the group of the new
\* video (the poller the hook starts for it is not followed)
ReUpload ==
    /\ event.op # "create"
    /\ record.streamId = "sid"
    /\ record' = ReplacedRecord
    /\ event' = [op |-> "reupload", p |-> 0]
    /\ UNCHANGED <<variant, pollers, overlap, followed, updateCalled>>
    /\ UNCHANGED notPoll

NextWriters ==
    \/ Next
    \/ ReUpload

\* the documents the afterChange hook can be handed: with or without a
\* streamId, in any status
HookRecords ==
    [streamId : {"none", "sid"}, streamUrl : {"watch"}, uploadedAt : {"t1"},
     status : {"processing", "ready", "error"},
     duration : {"none"}, thumbnailUrl : {"none"}, size : {"none"},
     downloadUrl : {"none"}]

\* a document of any kind has just been saved; the first poller the hook
\* starts for it is followed, and its ticks settle before the timer fires
\* again
InitHook ==
    /\ variant \in Variants
    /\ record \in HookRecords
    /\ pollers = << >>
    /\ event = [op |-> "create", p |-> 0]
    /\ updateCalled = FALSE
    /\ overlap = 1 /\ followed = 1
    /\ NoUpload
    /\ NoHandlers
    /\ NoLifecycle
    /\ setup = SetupIdle
    /\ polling = PollIdle /\ handled = HandleIdle

Spec == Init /\ [][Next]_vars

SpecHook == InitHook /\ [][Next]_vars

SpecEdits == InitPrompt /\ [][NextEdits]_vars

SpecWriters == Init /\ [][NextWriters]_vars

\* fetch, genAndGetDownloadUrl and payload.update settle (resolve or
\* reject); a registered timer fires
Settle ==
    \E p \in 1..Len(pollers) :
        \/ \E answer \in QueryAnswers : QueryReturns(p, answer)
        \/ \E t \in DownloadTicks, ok \in BOOLEAN : DownloadReturns(p, t, ok)
        \/ \E t \in UpdateTicks, ok \in BOOLEAN : UpdateReturns(p, t, ok)

SpecFair == Init /\ [][Next]_vars /\ WF_vars(Settle)

\* ------------------------------------------------------------------------
\* Client upload: actions

\* no poller is running
NoPolling ==
    /\ variant = "timeout"
    /\ record = ReplacedRecord
    /\ pollers = << >>
    /\ event = [op |-> "create", p |-> 0]
    /\ overlap = 1 /\ followed = 1
    /\ updateCalled = FALSE

InitUpload ==
    /\ NoPolling
    /\ client = ClientIdle
    /\ endpoint \in {EndpointIdle(options) : options \in EndpointOptions}
    /\ calls = << >>
    /\ NoHandlers
    /\ NoLifecycle
    /\ NoSetup
    /\ NoWait

\* the client handler up to the fetch of the signed-URL endpoint
ClientStart(size, collectionSlug) ==
    LET tus == useTus(size) IN
    /\ client.pc = "idle"
    /\ client' = [client EXCEPT
           !.pc = "requesting",
           !.size = size,
           !.collectionSlug = collectionSlug,
           !.useTus = tus,
           !.uploadType = IF tus THEN "tus" ELSE "direct",
           !.request = IssuanceHeaders(tus, size)]
    /\ UNCHANGED <<endpoint, calls>>
    /\ UNCHANGED notUpload

\* the endpoint handler up to its first fetch
GenerateSignedURL(json, user) ==
    LET tus == isTusUpload(client.request)
        fail(error) ==
            /\ endpoint' = [endpoint EXCEPT
                   !.pc = "failed", !.user = user, !.response = Failure(error)]
            /\ UNCHANGED calls
    IN
    /\ client.pc = "requesting"
    /\ endpoint.pc = "idle"
    /\ IF ~json
       THEN fail("Content-Type expected to be application/json")
       ELSE IF client.collectionSlug \notin Collections
       THEN fail("Collection was not found")
       ELSE IF ~access(endpoint.options.access, client.collectionSlug, user)
       THEN fail("Forbidden")
       ELSE /\ endpoint' = [endpoint EXCEPT
                   !.pc = "creating",
                   !.user = user,
                   !.isTusUpload = tus,
                   !.allowedOrigins =
                       normalizeAllowedOrigins(endpoint.options.allowedOrigins)]
            /\ calls' = Append(calls,
                   [call |-> IF tus THEN "tusCreate" ELSE "directCreate",
                    answer |-> Pending])
    /\ UNCHANGED client
    /\ UNCHANGED notUpload

\* the creation call settles: the tus branch up to the follow-up call or
\* the response, the direct branch up to the response
CreateReturns(answer) ==
    LET answered == [calls EXCEPT ![Len(calls)].answer = answer]
        streamId == extractStreamIdFromTusUrl(answer.location)
        fail(error) ==
            /\ endpoint' = [endpoint EXCEPT
                   !.pc = "failed", !.response = Failure(error)]
            /\ calls' = answered
    IN
    /\ endpoint.pc = "creating"
    /\ IF endpoint.isTusUpload
       THEN /\ answer \in TusAnswers
            /\ IF answer.kind = "throws" \/ ~answer.ok
               THEN fail("Failed to generate TUS upload URL")
               ELSE IF answer.location = NoLocation
               THEN fail("Failed to get TUS upload URL from Cloudflare response")
               ELSE IF streamId = ""
               THEN fail("Failed to parse streamId from TUS upload URL")
               ELSE IF OriginsNeeded(endpoint.allowedOrigins)
               THEN /\ endpoint' = [endpoint EXCEPT
                           !.pc = "settingOrigins", !.streamId = streamId]
                    /\ calls' = Append(answered,
                           [call |-> "setAllowedOrigins", answer |-> Pending])
               ELSE /\ endpoint' = [endpoint EXCEPT
                           !.pc = "responded",
                           !.streamId = streamId,
                           !.response = TusTarget(answer.location, streamId)]
                    /\ calls' = answered
       ELSE /\ answer \in JsonAnswers
            /\ IF answer.kind = "throws" \/ ~answer.ok \/ ~answer.success
               THEN fail("Failed to generate upload URL")
               ELSE /\ endpoint' = [endpoint EXCEPT
                           !.pc = "responded",
                           !.streamId = DirectTarget.streamId,
                           !.response = DirectTarget]
                    /\ calls' = answered
    /\ UNCHANGED client
    /\ UNCHANGED notUpload

\* setAllowedOriginsForStream settles, then the tus branch responds
OriginsReturn(answer) ==
    LET created == calls[Len(calls) - 1].answer IN
    /\ endpoint.pc = "settingOrigins"
    /\ calls' = [calls EXCEPT ![Len(calls)].answer = answer]
    /\ IF OriginsFailed(answer)
       THEN endpoint' = [endpoint EXCEPT
                !.pc = "failed",
                !.response = Failure("Failed to set allowedOrigins for stream")]
       ELSE endpoint' = [endpoint EXCEPT
                !.pc = "responded",
                !.response = TusTarget(created.location, endpoint.streamId)]
    /\ UNCHANGED client
    /\ UNCHANGED notUpload

\* the client handler from the settled issuance fetch to the start of the
\* transfer
ClientReceives(arrival) ==
    LET responseData == endpoint.response
        transfer == ChooseTransfer(client.useTus, responseData)
        established == [client EXCEPT !.uploadSessionEstablished = TRUE]
    IN
    /\ client.pc = "requesting"
    /\ endpoint.pc \in {"responded", "failed"}
    /\ IF arrival = "fetchThrows"
       THEN client' = OuterCatch(client, "fetch")
       ELSE IF ~responseData.ok
       THEN client' = OuterCatch(client, "status")
       ELSE IF arrival = "jsonThrows"
       THEN client' = OuterCatch(client, "json")
       ELSE IF transfer = "none"
       THEN client' = OuterCatch(established, "endpoint")
       ELSE client' = [established EXCEPT
                !.pc = "transfer",
                !.transfer = transfer,
                !.posts = IF transfer = "direct" THEN @ + 1 ELSE @]
    /\ UNCHANGED <<endpoint, calls>>
    /\ UNCHANGED notUpload

\* the tus transfer ends with its terminal event: onSuccess emits and
\* resolves, onError emits and rejects
TransferEnds(ok) ==
    LET streamId == endpoint.response.streamId IN
    /\ client.pc = "transfer"
    /\ client.transfer = "tus"
    /\ IF ok
       THEN client' = [EmitSuccess(client, streamId) EXCEPT
                !.pc = "done",
                !.transferred = TRUE,
                !.returned = [streamId |-> streamId, status |-> "processing"]]
       ELSE client' = [EmitError(client, "upload") EXCEPT
                !.pc = "failed", !.failedAt = "transfer"]
    /\ UNCHANGED <<endpoint, calls>>
    /\ UNCHANGED notUpload

\* the direct transfer ends: uploadFileWithProgress resolves or rejects,
\* then the rest of the direct branch, inside the outer try
XhrSettles(answer, callback) ==
    LET streamId == endpoint.response.streamId
        settled == [client EXCEPT !.xhr = answer]
        sent == [settled EXCEPT !.transferred = TRUE]
    IN
    /\ client.pc = "transfer"
    /\ client.transfer = "direct"
    /\ IF answer.kind = "error" \/ ~XhrSucceeded(answer.status)
       THEN client' = OuterCatch(EmitError(settled, "upload"), "transfer")
       ELSE IF callback = "none"
       THEN client' = [sent EXCEPT
                !.pc = "done",
                !.returned = [streamId |-> streamId, status |-> "processing"]]
       ELSE IF callback = "throws"
       THEN client' = OuterCatch(EmitSuccess(sent, streamId), "callback")
       ELSE client' = [EmitSuccess(sent, streamId) EXCEPT
                !.pc = "done",
                !.returned = [streamId |-> streamId, status |-> "processing"]]
    /\ UNCHANGED <<endpoint, calls>>
    /\ UNCHANGED notUpload

NextUpload ==
    \/ \E size \in FileSizes, collectionSlug \in Slugs :
           ClientStart(size, collectionSlug)
    \/ \E json \in BOOLEAN, user \in Users : GenerateSignedURL(json, user)
    \/ \E answer \in TusAnswers \cup JsonAnswers : CreateReturns(answer)
    \/ \E answer \in JsonAnswers : OriginsReturn(answer)
    \/ \E arrival \in Arrivals : ClientReceives(arrival)
    \/ \E ok \in BOOLEAN : TransferEnds(ok)
    \/ \E answer \in XhrAnswers, callback \in Callbacks : XhrSettles(answer, callback)

SpecUpload == InitUpload /\ [][NextUpload]_vars

\* ------------------------------------------------------------------------
\* Server handlers: actions

InitHandlers ==
    NoPolling /\ NoUpload /\ NoHandlers /\ NoLifecycle /\ NoSetup /\ NoWait

\* fetchVideoStatus maps the state of a video
CheckVideoStatusMaps(videoData) ==
    /\ mapped' = [mapped EXCEPT !["checkVideoStatus"] =
           Mapped(videoData, checkVideoStatusMaps(videoData))]
    /\ UNCHANGED deletion
    /\ UNCHANGED notHandlers

\* handleUpload maps the state of the uploaded video
HandleUploadMaps(videoData) ==
    /\ mapped' = [mapped EXCEPT !["handleUpload"] =
           Mapped(videoData, handleUploadMaps(videoData))]
    /\ UNCHANGED deletion
    /\ UNCHANGED notHandlers

\* handleStreamUpload maps the state in the upload response
HandleStreamUploadMaps(videoData) ==
    /\ mapped' = [mapped EXCEPT !["handleStreamUpload"] =
           Mapped(videoData, handleStreamUploadMaps(videoData))]
    /\ UNCHANGED deletion
    /\ UNCHANGED notHandlers

\* handleStreamDelete up to its fetch
HandleStreamDelete(accountId, apiToken, streamId) ==
    /\ deletion.pc = "idle"
    /\ deletion' = [deletion EXCEPT
           !.accountId = accountId,
           !.apiToken = apiToken,
           !.streamId = streamId,
           !.pc = IF accountId = "" \/ apiToken = "" THEN "thrown"
                  ELSE IF streamId = "" THEN "returned"
                  ELSE "awaiting",
           !.requests = IF accountId = "" \/ apiToken = "" \/ streamId = ""
                        THEN @ ELSE @ + 1]
    /\ UNCHANGED mapped
    /\ UNCHANGED notHandlers

\* the DELETE settles
DeleteReturns(answer) ==
    /\ deletion.pc = "awaiting"
    /\ deletion' = [deletion EXCEPT
           !.answer = answer,
           !.pc = IF answer.kind = "throws" THEN "thrown"
                  ELSE IF ResponseOk(answer.status) THEN "returned"
                  ELSE IF NotFound(answer.status) THEN "returned"
                  ELSE "thrown"]
    /\ UNCHANGED mapped
    /\ UNCHANGED notHandlers

NextHandlers ==
    \/ \E videoData \in VideoDatas : CheckVideoStatusMaps(videoData)
    \/ \E videoData \in VideoDatas : HandleUploadMaps(videoData)
    \/ \E videoData \in VideoDatas : HandleStreamUploadMaps(videoData)
    \/ \E accountId \in AccountIds, apiToken \in ApiTokens, streamId \in StreamIds :
           HandleStreamDelete(accountId, apiToken, streamId)
    \/ \E answer \in DeleteAnswers : DeleteReturns(answer)

SpecHandlers == InitHandlers /\ [][NextHandlers]_vars

\* ------------------------------------------------------------------------
\* Document lifecycle: actions

InitLifecycle ==
    /\ variant \in Variants
    /\ record = ReplacedRecord
    /\ pollers = << >>
    /\ event = [op |-> "create", p |-> 0]
    /\ overlap = 1 /\ followed = 1
    /\ updateCalled = FALSE
    /\ NoUpload
    /\ NoHandlers
    /\ \E streamId \in {NoStream, 1} :
           document = [exists |-> TRUE, streamId |-> streamId, created |-> streamId]
    /\ op = OpIdle(0)
    /\ requests = << >>
    /\ NoSetup
    /\ NoWait

\* the request that brings the new video: handleStreamUpload in the hooks
\* revision, the detail query of handleUpload in the adapter revisions
UploadRequest(o) ==
    Request(IF variant = "timeout" THEN "UPLOAD" ELSE "DETAILS", NoStream, o)

\* an update of the document, up to its first remote request: the
\* beforeChangeHook of the hooks revision, or the storage host calling
\* handleDelete for the replaced file and then handleUpload
BeginUpdate(hasFile, group, found) ==
    LET old == IF variant = "timeout"
               THEN DataStreamId(group, document.streamId)
               ELSE document.streamId
        o == [kind |-> "update", phase |-> "idle", n |-> op.n + 1,
              hasFile |-> hasFile, stored |-> document.streamId,
              outcome |-> "none", group |-> group]
    IN
    /\ op.phase = "idle"
    /\ document.exists
    /\ op.n < MaxOps
    /\ IF \/ ReplacesOldVideo(variant, hasFile, old)
          \/ hasFile /\ HandleDeleteIssues(variant, old)
       THEN /\ op' = [o EXCEPT !.phase = "deleting"]
            /\ requests' = Append(requests, Request("DELETE", old, o))
            /\ UNCHANGED document
       ELSE IF hasFile
       THEN /\ op' = [o EXCEPT !.phase = "uploading"]
            /\ requests' = Append(requests, UploadRequest(o))
            /\ UNCHANGED document
       ELSE IF variant = "timeout" /\ group # "absent" /\ ~found
       THEN /\ op' = [o EXCEPT !.outcome = "failed"]
            /\ UNCHANGED <<document, requests>>
       ELSE /\ op' = [o EXCEPT !.outcome = "ok"]
            /\ document' = [document EXCEPT !.streamId =
                   PlainUpdateStores(variant, group, document.streamId)]
            /\ UNCHANGED requests
    /\ UNCHANGED <<variant, notLifecycle>>

\* the removal of the document, up to its remote request: beforeDeleteHook,
\* or the storage host calling handleDelete
BeginDelete(found, custom) ==
    LET o == [kind |-> "delete", phase |-> "idle", n |-> op.n + 1,
              hasFile |-> FALSE, stored |-> document.streamId,
              outcome |-> "none", group |-> "absent"]
    IN
    /\ op.phase = "idle"
    /\ document.exists
    /\ op.n < MaxOps
    /\ IF \/ BeforeDeleteIssues(variant, found, custom, document.streamId)
          \/ HandleDeleteIssues(variant, document.streamId)
       THEN /\ op' = [o EXCEPT !.phase = "deleting"]
            /\ requests' = Append(requests, Request("DELETE", document.streamId, o))
            /\ UNCHANGED document
       ELSE /\ op' = [o EXCEPT !.outcome = "ok"]
            /\ document' = [document EXCEPT !.exists = FALSE]
            /\ UNCHANGED requests
    /\ UNCHANGED <<variant, notLifecycle>>

\* handleStreamDelete settles; its error is caught and logged
DeleteSettles(ok) ==
    /\ op.phase = "deleting"
    /\ IF op.kind = "delete"
       THEN /\ op' = [op EXCEPT !.phase = "idle", !.outcome = "ok"]
            /\ document' = [document EXCEPT !.exists = FALSE]
            /\ UNCHANGED requests
       ELSE IF op.hasFile
       THEN /\ op' = [op EXCEPT !.phase = "uploading"]
            /\ requests' = Append(requests, UploadRequest(op))
            /\ UNCHANGED document
       ELSE /\ op' = [op EXCEPT !.phase = "idle", !.outcome = "ok"]
            /\ UNCHANGED <<document, requests>>
    /\ UNCHANGED <<variant, notLifecycle>>

\* the new video arrives: handleStreamUpload returns or throws; handleUpload
\* stores the group of the client's streamId whatever the detail query says
UploadSettles(ok) ==
    /\ op.phase = "uploading"
    /\ IF ok \/ variant # "timeout"
       THEN /\ document' = [document EXCEPT
                   !.streamId = document.created + 1,
                   !.created = document.created + 1]
            /\ op' = [op EXCEPT !.phase = "idle", !.outcome = "ok"]
       ELSE /\ op' = [op EXCEPT !.phase = "idle", !.outcome = "failed"]
            /\ UNCHANGED document
    /\ UNCHANGED requests
    /\ UNCHANGED <<variant, notLifecycle>>

NextLifecycle ==
    \/ \E hasFile \in BOOLEAN, group \in DataGroups, found \in BOOLEAN :
           BeginUpdate(hasFile, group, found)
    \/ \E found \in BOOLEAN, custom \in CustomHooks : BeginDelete(found, custom)
    \/ \E ok \in BOOLEAN : DeleteSettles(ok)
    \/ \E ok \in BOOLEAN : UploadSettles(ok)

SpecLifecycle == InitLifecycle /\ [][NextLifecycle]_vars

\* ------------------------------------------------------------------------
\* Plugin setup: actions

InitSetup ==
    /\ variant \in Variants
    /\ record = ReplacedRecord
    /\ pollers = << >>
    /\ event = [op |-> "create", p |-> 0]
    /\ overlap = 1 /\ followed = 1
    /\ updateCalled = FALSE
    /\ NoUpload
    /\ NoHandlers
    /\ NoLifecycle
    /\ NoSetup
    /\ NoWait

\* one run of the function the plugin returns: it returns the incoming
\* configuration when the plugin is disabled, (hooks revision) when no
\* collection is given, and, after console.error, when a credential is
\* missing; otherwise it returns the configuration with the plugin's
\* adapter or hooks installed.  No path of it throws.
PluginSetup(enabled, hasCollections, accountId, apiToken, envAccountId, envApiToken) ==
    /\ setup.pc = "idle"
    /\ LET account == SetupCredential(variant, accountId, envAccountId)
           token == SetupCredential(variant, apiToken, envApiToken)
           skipped == SetupSkipped(variant, enabled, hasCollections)
           missing == CredentialsMissing(account, token)
       IN  setup' =
               [pc |-> "returned", enabled |-> enabled,
                hasCollections |-> hasCollections,
                accountId |-> account, apiToken |-> token,
                logged |-> ~skipped /\ missing,
                outcome |-> IF skipped \/ missing THEN "incoming"
                            ELSE "installed"]
    /\ UNCHANGED <<variant, notSetup>>

NextSetup ==
    \E enabled \in BOOLEAN, hasCollections \in BOOLEAN,
       accountId \in Credentials, apiToken \in Credentials,
       envAccountId \in Credentials, envApiToken \in Credentials :
        PluginSetup(enabled, hasCollections, accountId, apiToken,
                    envAccountId, envApiToken)

SpecSetup == InitSetup /\ [][NextSetup]_vars

\* ------------------------------------------------------------------------
\* poll, checkVideoStatus and handleUpload: actions

InitWaits ==
    /\ variant \in {"interval", "intervalDl"}
    /\ record = ReplacedRecord
    /\ pollers = << >>
    /\ event = [op |-> "create", p |-> 0]
    /\ overlap = 1 /\ followed = 1
    /\ updateCalled = FALSE
    /\ NoUpload
    /\ NoHandlers
    /\ NoLifecycle
    /\ setup = SetupIdle
    /\ NoWait

\* a direct call of poll(callback, { maxAttempts: option })
Poll(option) ==
    /\ polling.pc = "idle" /\ handled.pc = "idle"
    /\ polling' = PollBegin("generic", option)
    /\ UNCHANGED handled
    /\ UNCHANGED <<variant, notWait>>

\* a direct call of checkVideoStatus
CheckVideoStatus(waitUntilReady) ==
    /\ polling.pc = "idle" /\ handled.pc = "idle"
    /\ polling' = IF waitUntilReady
                  THEN PollBegin("status", DefaultMaxAttempts)
                  ELSE FetchOnce
    /\ UNCHANGED handled
    /\ UNCHANGED <<variant, notWait>>

\* setTimeout(resolve, interval) fires inside poll: the next attempt
TimerElapses ==
    /\ polling.pc = "waiting"
    /\ polling' = Attempt(polling)
    /\ handled' = IF handled.pc \in {"status", "downloads"}
                  THEN Called(handled, handled.pc = "status")
                  ELSE handled
    /\ UNCHANGED <<variant, notWait>>

\* the callback of a direct call of poll settles
CallbackSettles(outcome) ==
    /\ polling.pc = "calling" /\ polling.kind = "generic"
    /\ polling' = CallbackSettled(polling, outcome)
    /\ UNCHANGED handled
    /\ UNCHANGED <<variant, notWait>>

\* the status query of checkVideoStatus is answered; inside handleUpload
\* genAndGetDownloadUrl goes on to POST /downloads when the wait returned
\* and throws into handleUpload's catch when it failed
StatusQueryReturns(answer) ==
    /\ polling.pc = "calling" /\ polling.kind \in {"status", "statusOnce"}
    /\ LET w == IF polling.kind = "statusOnce"
                THEN FetchOnceSettled(polling, answer)
                ELSE CallbackSettled(NoteError(polling, answer),
                                     StatusCallback(answer))
       IN  /\ polling' = w
           /\ handled' =
                  IF handled.pc = "status" /\ w.pc = "ended"
                  THEN IF w.outcome = "returned"
                       THEN Called([handled EXCEPT !.pc = "downloadsPost"], FALSE)
                       ELSE Processing(handled, "download")
                  ELSE handled
    /\ UNCHANGED <<variant, notWait>>

\* handleUpload up to its first await: the streamId of the client upload
\* context, else (second revision) the server-side fallback upload when
\* the file has a buffer, else data is returned as it came
HandleUpload(context, hasBuffer) ==
    /\ polling.pc = "idle" /\ handled.pc = "idle"
    /\ handled' =
           IF context
           THEN Called([handled EXCEPT !.pc = "details", !.streamId = "context"], FALSE)
           ELSE IF variant = "interval" \/ ~hasBuffer
           THEN [handled EXCEPT !.pc = "returned"]
           ELSE Called([handled EXCEPT !.pc = "fallbackCreate"], FALSE)
    /\ UNCHANGED polling
    /\ UNCHANGED <<variant, notWait>>

\* POST /stream/direct_upload of ensureStreamIdForServerUpload returns
FallbackCreateReturns(ok) ==
    /\ handled.pc = "fallbackCreate"
    /\ handled' =
           IF ok
           THEN Called([handled EXCEPT !.pc = "fallbackUpload"], FALSE)
           ELSE [handled EXCEPT !.pc = "returned", !.failed = "fallback"]
    /\ UNCHANGED polling
    /\ UNCHANGED <<variant, notWait>>

\* the POST of the file to the upload URL returns
FallbackUploadReturns(ok) ==
    /\ handled.pc = "fallbackUpload"
    /\ handled' =
           IF ok
           THEN Called([handled EXCEPT !.pc = "details", !.streamId = "uid"], FALSE)
           ELSE [handled EXCEPT !.pc = "returned", !.failed = "fallback"]
    /\ UNCHANGED polling
    /\ UNCHANGED <<variant, notWait>>

\* the detail query returns.  The first revision stores the group at
\* once; the second calls genAndGetDownloadUrl, which throws without
\* credentials and otherwise awaits checkVideoStatus with waitUntilReady:
\* true (the waitUntilReady: false handleUpload passes is not a parameter
\* of genAndGetDownloadUrl)
DetailsReturn(answer, credentials, custom) ==
    /\ handled.pc = "details"
    /\ LET h == [handled EXCEPT
                     !.status = handleUploadMaps(answer.videoData)]
       IN  IF answer.kind # "ok"
           THEN /\ handled' = Processing(handled, "details")
                /\ UNCHANGED polling
           ELSE IF variant = "interval"
           THEN /\ handled' = Complete(h, "none", custom)
                /\ UNCHANGED polling
           ELSE IF ~credentials
           THEN /\ handled' = Processing(h, "download")
                /\ UNCHANGED polling
           ELSE /\ handled' = Called([h EXCEPT !.pc = "status"], TRUE)
                /\ polling' = PollBegin("status", DefaultMaxAttempts)
    /\ UNCHANGED <<variant, notWait>>

\* POST /stream/{uid}/downloads returns in genAndGetDownloadUrl
DownloadsPostReturns(answer, custom) ==
    /\ handled.pc = "downloadsPost"
    /\ IF answer = "fails"
       THEN /\ handled' = Processing(handled, "download")
            /\ UNCHANGED polling
       ELSE IF answer = "ready"
       THEN /\ handled' = Complete(handled, "url", custom)
            /\ UNCHANGED polling
       ELSE /\ handled' = Called([handled EXCEPT !.pc = "downloads"], FALSE)
            /\ polling' = PollBegin("downloads", DefaultMaxAttempts)
    /\ UNCHANGED <<variant, notWait>>

\* GET /stream/{uid}/downloads returns in the callback of the second poll
DownloadQueryReturns(answer, custom) ==
    /\ polling.pc = "calling" /\ polling.kind = "downloads"
    /\ LET w == CallbackSettled(polling, DownloadCallback(answer))
       IN  /\ polling' = w
           /\ handled' =
                  IF w.pc # "ended" THEN handled
                  ELSE IF w.outcome = "returned"
                  THEN Complete(handled, "url", custom)
                  ELSE Processing(handled, "download")
    /\ UNCHANGED <<variant, notWait>>

NextWaits ==
    \/ \E option \in 0..MaxAttemptsOption : Poll(option)
    \/ \E waitUntilReady \in BOOLEAN : CheckVideoStatus(waitUntilReady)
    \/ TimerElapses
    \/ \E outcome \in CallbackOutcomes : CallbackSettles(outcome)
    \/ \E answer \in QueryAnswers : StatusQueryReturns(answer)
    \/ \E context \in BOOLEAN, hasBuffer \in BOOLEAN :
           HandleUpload(context, hasBuffer)
    \/ \E ok \in BOOLEAN : FallbackCreateReturns(ok)
    \/ \E ok \in BOOLEAN : FallbackUploadReturns(ok)
    \/ \E answer \in DetailAnswers, credentials \in BOOLEAN,
          custom \in Callbacks : DetailsReturn(answer, credentials, custom)
    \/ \E answer \in DownloadsPostAnswers, custom \in Callbacks :
           DownloadsPostReturns(answer, custom)
    \/ \E answer \in DownloadAnswers, custom \in Callbacks :
           DownloadQueryReturns(answer, custom)

SpecWaits == InitWaits /\ [][NextWaits]_vars

\* the timer of poll fires and a pending callback or request settles
SpecWaitsFair ==
    /\ SpecWaits
    /\ WF_vars(TimerElapses)
    /\ WF_vars(\E outcome \in CallbackOutcomes : CallbackSettles(outcome))
    /\ WF_vars(\E answer \in QueryAnswers : StatusQueryReturns(answer))
    /\ WF_vars(\E answer \in DownloadAnswers, custom \in Callbacks :
                   DownloadQueryReturns(answer, custom))

\* ------------------------------------------------------------------------
\* Properties

Pollers == 1..Len(pollers)

PhaseCount(p, phase) ==
    BagCardinality([t \in TicksIn(p, phase) |-> pollers[p].ticks[t]])

Active(p) == pollers[p].timer \/ InFlight(p) > 0

Terminal == {"ready", "error"}

\* C1: for one record the pollers call req.payload.update at most once: no
\* tick reaches the update call once an update call has been made.
C1_AtMostOneUpdate ==
    [][\A p \in Pollers :
          PhaseCount(p, "update")' > PhaseCount(p, "update") => ~updateCalled]_vars

\* C2: the ticks of one poller never overlap: at most one tick of a poller
\* is awaiting its status query, download URL or record update.
C2_TicksNeverOverlap == \A p \in Pollers : InFlight(p) <= 1

\* C3: once the stored status is 'ready' or 'error' no step changes it.
C3_StatusMonotonic ==
    [][record.status \in Terminal => record'.status = record.status]_vars

\* C4: at most one polling loop is active for the streamId, also when the
\* hook runs again for an edit made while the status is 'processing'.
C4_SinglePoller == Cardinality({p \in Pollers : Active(p)}) <= 1

\* C5: one poller issues at most maxAttempts status queries (every tick
\* issues exactly one, when it increments attempts).
C5_AtMostMaxAttemptsQueries == \A p \in Pollers : pollers[p].attempts <= maxAttempts

\* C6: when every status query of a poller mapped to 'processing' and the
\* budget is used up and its ticks have settled, the poller has stopped,
\* has called no update, and (being the record's only poller) has left the
\* record as it was when the hook ran.
C6_BudgetExhaustedNoWrite ==
    \A p \in Pollers :
        (/\ pollers[p].onlyProcessing
         /\ pollers[p].attempts >= maxAttempts
         /\ InFlight(p) = 0)
        => /\ ~pollers[p].timer
           /\ ~pollers[p].wrote
           /\ (Len(pollers) = 1 => ~updateCalled /\ record = pollers[p].doc
                                   /\ record.status = "processing")

C6_Witness ==
    \E p \in Pollers :
        /\ variant = "intervalDl"
        /\ pollers[p].onlyProcessing
        /\ pollers[p].attempts = maxAttempts
        /\ InFlight(p) = 0
        /\ ~pollers[p].timer

\* a tick of some poller has observed the terminal answer (s, m) and is on
\* its way to the record update
Observed(s, m) ==
    \E p \in Pollers : \E t \in BagToSet(pollers[p].ticks) :
        t.phase \in {"download", "update"} /\ t.status = s /\ t.meta = m

Stored(s, m) ==
    /\ record.status = s
    /\ record.duration = m /\ record.thumbnailUrl = m /\ record.size = m

\* an update of poller p that succeeded in this step stored the status and
\* the metadata of the answer its tick observed
UpdateStoresAnswer(p) ==
    event' = [op |-> "updateOk", p |-> p] =>
        \E t \in TicksIn(p, "update") :
            /\ pollers'[p].ticks = pollers[p].ticks (-) One(t)
            /\ record'.status = t.status
            /\ record'.duration = t.meta
            /\ record'.thumbnailUrl = t.meta
            /\ record'.size = t.meta

C8_QueryFailureKeepsPolling ==
    \A p \in Pollers :
        (event = [op |-> "queryFail", p |-> p] /\ pollers[p].attempts < maxAttempts)
        => pollers[p].timer

\* C8 amended: a failed status query consumes the one attempt counted when
\* its tick began; in the setTimeout revision the next tick is scheduled
\* exactly while attempts < maxAttempts, in the setInterval revisions the
\* tick clears the timer.
C8_QueryFailureByRevision ==
    [][\A p \in Pollers :
          event' = [op |-> "queryFail", p |-> p] =>
              /\ pollers'[p].attempts = pollers[p].attempts
              /\ InFlight(p)' = InFlight(p) - 1
              /\ pollers'[p].timer =
                     (variant = "timeout" /\ pollers[p].attempts < maxAttempts)]_vars

C8_Witness ==
    \E p \in Pollers :
        /\ variant = "timeout"
        /\ event = [op |-> "queryFail", p |-> p]
        /\ pollers[p].attempts > 1
        /\ pollers[p].timer

\* C9 as stated: after a failed record update with budget left the poller
\* keeps ticking, so that the write is retried.
C9_UpdateFailureRetried ==
    \A p \in Pollers :
        (event = [op |-> "updateFail", p |-> p] /\ pollers[p].attempts < maxAttempts)
        => pollers[p].timer

\* C9 amended: a failed record update is caught, the tick ends and the
\* record is left as stored; in the setInterval revisions the tick clears
\* the timer (no retry by a later tick), in the setTimeout revision the next
\* tick is scheduled exactly while attempts < maxAttempts.
C9_UpdateFailureByRevision ==
    [][\A p \in Pollers :
          event' = [op |-> "updateFail", p |-> p] =>
              /\ record' = record
              /\ InFlight(p)' = InFlight(p) - 1
              /\ pollers'[p].wrote = pollers[p].wrote
              /\ (IsInterval(variant) => ~pollers'[p].timer)
              /\ (variant = "timeout" =>
                     pollers'[p].timer = (pollers[p].attempts < maxAttempts))]_vars

C9_Witness ==
    \E p \in Pollers :
        /\ variant = "intervalDl"
        /\ event = [op |-> "updateFail", p |-> p]
        /\ pollers[p].attempts < maxAttempts
        /\ ~pollers[p].timer
        /\ record.status = "processing"

\* C10: once a poller has done its terminal write or used up its budget, no
\* further tick of it begins (attempts is incremented when a tick begins).
C10_NoTickAfterStop ==
    [][\A p \in Pollers :
          (pollers[p].wrote \/ pollers[p].attempts >= maxAttempts)
          => pollers'[p].attempts = pollers[p].attempts]_vars

\* the step is a successful record update of poller p
UpdateOkStep(p) == event' = [op |-> "updateOk", p |-> p]

\* C11 as stated: the merge-write leaves streamId, streamUrl and uploadedAt
\* as they are stored at the moment of the write.
C11_WriteKeepsStoredFields ==
    [][\A p \in Pollers :
          UpdateOkStep(p) =>
              /\ record'.streamId = record.streamId
              /\ record'.streamUrl = record.streamUrl
              /\ record'.uploadedAt = record.uploadedAt]_vars

\* C11 amended: in the setInterval revisions the merge-write stores
\* streamId, streamUrl and uploadedAt (and, without the download step,
\* downloadUrl) as they were in the doc handed to the hook when the poller
\* started, whatever is stored at the moment of the write; in the
\* setTimeout revision the beforeChange hook keeps the whole stored group.
C11_WriteStoresHookSnapshot ==
    [][\A p \in Pollers :
          UpdateOkStep(p) =>
              IF IsInterval(variant)
              THEN /\ record'.streamId = pollers[p].doc.streamId
                   /\ record'.streamUrl = pollers[p].doc.streamUrl
                   /\ record'.uploadedAt = pollers[p].doc.uploadedAt
                   /\ (variant = "interval" =>
                          record'.downloadUrl = pollers[p].doc.downloadUrl)
              ELSE record' = record]_vars

C11_Witness ==
    /\ IsInterval(variant)
    /\ event.op = "updateOk"
    /\ record.streamId = "sid"
    /\ record.status \in Terminal
    /\ \E p \in Pollers : pollers[p].wrote /\ pollers[p].doc.streamId = "sid"

\* the ticks of poller p that are in flight
TicksOf(p) == BagToSet(pollers[p].ticks)

\* the downloadUrl the update carries when no URL was obtained
KeptUrl(p) == IF pollers[p].doc.downloadUrl = "old" THEN "old" ELSE ""

Requested == client.pc # "idle"

\* C13: the client selects tus exactly for a file larger than 200 MiB (a
\* file of exactly 200 MiB goes direct), and the issuance request carries
\* X-Use-Tus: true and Upload-Length exactly when tus was selected.
C13_TusIffLargerThanLimit ==
    Requested =>
        /\ client.useTus <=> client.size > 209715200
        /\ (client.uploadType = "tus") <=> client.useTus
        /\ client.size = 209715200 => client.uploadType = "direct"
        /\ client.useTus <=>
               /\ "X-Use-Tus" \in DOMAIN client.request
               /\ client.request["X-Use-Tus"] = "true"
        /\ client.useTus <=> "Upload-Length" \in DOMAIN client.request
        /\ client.useTus => client.request["Upload-Length"] = ToString(client.size)

C13_Witness ==
    /\ Requested
    /\ client.size = MAX_FILE_SIZE
    /\ client.uploadType = "direct"
    /\ client.request = NoHeaders

\* the request asked for resumable mode
AskedTus ==
    /\ "X-Use-Tus" \in DOMAIN client.request
    /\ client.request["X-Use-Tus"] = "true"

\* C14: a successful issuance response carries exactly one of uploadURL
\* and tusEndpoint, tusEndpoint exactly when the request asked for tus;
\* the client starts a tus transfer exactly when it selected tus.
C14_OneTargetMatchingMode ==
    /\ endpoint.pc = "responded" =>
           LET r == endpoint.response IN
           /\ r.ok
           /\ (r.uploadURL # "") # (r.tusEndpoint # NoLocation)
           /\ (r.tusEndpoint # NoLocation) <=> AskedTus
    /\ client.transfer # "none" =>
           (client.transfer = "tus" <=> client.useTus)

C14_Witness ==
    /\ endpoint.pc = "responded"
    /\ endpoint.response.tusEndpoint # NoLocation
    /\ client.pc = "done"
    /\ client.transfer = "tus"

\* the request names an unregistered collection or is denied access
Denied ==
    \/ client.collectionSlug \notin {"videos"}
    \/ endpoint.options.access = "denyAll"
    \/ endpoint.options.access = "default" /\ endpoint.user = "anonymous"

\* C15: the endpoint fails without any remote call when the collection is
\* not registered or the access predicate returns false; the default
\* predicate admits only a request with a user.
C15_DeniedWithoutRemoteCall ==
    endpoint.pc # "idle" /\ Denied =>
        /\ endpoint.pc = "failed"
        /\ ~endpoint.response.ok
        /\ calls = << >>

C15_Witness ==
    /\ endpoint.pc = "failed"
    /\ endpoint.options.access = "default"
    /\ endpoint.user = "anonymous"
    /\ client.collectionSlug = "videos"
    /\ endpoint.response.error = "Forbidden"

\* the remote call succeeded: HTTP ok, and success = true in the body of
\* the direct creation and of the allowedOrigins follow-up
CallSucceeded(c) ==
    /\ c.answer.kind = "response"
    /\ c.answer.ok
    /\ c.call # "tusCreate" => c.answer.success

\* C16: the endpoint returns a target only if every remote call it made
\* succeeded; otherwise the request fails and carries no streamId.
C16_TargetOnlyIfAllCallsSucceeded ==
    /\ endpoint.pc = "responded" =>
           /\ calls # << >>
           /\ \A i \in 1..Len(calls) : CallSucceeded(calls[i])
    /\ (\E i \in 1..Len(calls) :
            calls[i].answer.kind # "pending" /\ ~CallSucceeded(calls[i])) =>
           /\ endpoint.pc = "failed"
           /\ endpoint.response.streamId = ""
           /\ endpoint.response.uploadURL = ""
           /\ endpoint.response.tusEndpoint = NoLocation
    /\ endpoint.pc = "failed" => client.transfer = "none"

C16_Witness ==
    /\ endpoint.pc = "failed"
    /\ Len(calls) = 2
    /\ calls[2].answer.ok
    /\ ~calls[2].answer.success

\* the positions of the follow-up call among the endpoint's calls
FollowUps == {i \in 1..Len(calls) : calls[i].call = "setAllowedOrigins"}

\* C17: the allowedOrigins follow-up is issued at most once, only after
\* the tus creation succeeded and the streamId was parsed, only when the
\* normalized allowlist is non-empty, and never in direct mode.
C17_FollowUpOnceAfterCreation ==
    /\ Cardinality(FollowUps) <= 1
    /\ \A i \in FollowUps :
           /\ i = 2
           /\ calls[1].call = "tusCreate"
           /\ calls[1].answer.kind = "response" /\ calls[1].answer.ok
           /\ endpoint.streamId = "hex32"
           /\ AskedTus
           /\ \E k \in 1..Len(endpoint.options.allowedOrigins.items) :
                  endpoint.options.allowedOrigins.items[k] \notin {"", " "}

C17_Witness ==
    /\ endpoint.pc = "responded"
    /\ FollowUps = {2}

\* the Location header the tus creation answered with (NoLocation before)
Location == IF calls = << >> THEN NoLocation ELSE calls[1].answer.location

\* the URL has a path segment of 32 lower-case hex characters
HasIdSegment(url) == \E i \in 1..Len(url.segs) : url.segs[i] = "hex32"

\* the tus creation has answered with a Location header and the endpoint
\* has gone on from it
Parsed ==
    /\ endpoint.isTusUpload
    /\ endpoint.pc \notin {"idle", "creating"}
    /\ Location # NoLocation

\* C18 as stated: extraction succeeds for every URL with a 32-hex path
\* segment, whatever follows the id, and issuance fails without one.
C18_ExtractsAnyIdSegment ==
    Parsed =>
        IF HasIdSegment(Location)
        THEN endpoint.streamId = "hex32"
        ELSE endpoint.pc = "failed"

\* C18 amended: extraction succeeds exactly when the URL ends in
\* /tus/{32 lower-case hex}, optionally followed by a query string; the
\* URL returned as tusEndpoint yields the returned streamId again; for
\* every other URL issuance fails.
C18_ExtractsFixedPattern ==
    Parsed =>
        LET n == Len(Location.segs)
            matches ==
                /\ n >= 2
                /\ Location.segs[n - 1] = "tus"
                /\ Location.segs[n] = "hex32"
                /\ Location.tail # "fragment"
        IN
        IF matches
        THEN /\ endpoint.streamId = "hex32"
             /\ endpoint.pc = "responded" =>
                    /\ endpoint.response.tusEndpoint = Location
                    /\ endpoint.response.streamId = endpoint.streamId
        ELSE /\ endpoint.pc = "failed"
             /\ endpoint.streamId = ""

C18_Witness ==
    /\ Parsed
    /\ endpoint.pc = "failed"
    /\ Location.segs = <<"tus", "hex32", "media">>

\* ------------------------------------------------------------------------
\* Properties of the server handlers

\* the local status the three call sites are to give a remote state
Expected(state) ==
    IF state = "ready" THEN "ready"
    ELSE IF state = "error" THEN "error"
    ELSE "processing"

\* C19: at every call site 'ready' maps to ready, 'error' to error and
\* every other state string to processing, so that two call sites given
\* the same state agree.
C19_StatusMappingAgrees ==
    /\ \A site \in Sites :
           mapped[site].applied /\ mapped[site].videoData.hasStatus =>
               mapped[site].status = Expected(mapped[site].videoData.state)
    /\ \A s1, s2 \in Sites :
           /\ mapped[s1].applied /\ mapped[s2].applied
           /\ mapped[s1].videoData.hasStatus
           /\ mapped[s1].videoData = mapped[s2].videoData
           => mapped[s1].status = mapped[s2].status

C19_Witness ==
    /\ \A site \in Sites :
           /\ mapped[site].applied
           /\ mapped[site].videoData = [hasStatus |-> TRUE, state |-> "downloading"]
           /\ mapped[site].status = "processing"

\* C20: handleStreamDelete returns normally when the DELETE answers 2xx or
\* 404, throws for every other status, and sends no request when the
\* streamId is empty or a credential is missing.
C20_DeleteToleratesNotFound ==
    /\ deletion.answer.kind = "response" =>
           IF deletion.answer.status \in 200..299 \/ deletion.answer.status = 404
           THEN deletion.pc = "returned"
           ELSE deletion.pc = "thrown"
    /\ /\ deletion.pc # "idle"
       /\ deletion.streamId = "" \/ deletion.accountId = "" \/ deletion.apiToken = ""
       => /\ deletion.requests = 0
          /\ deletion.pc \in {"returned", "thrown"}

C20_Witness ==
    /\ deletion.pc = "returned"
    /\ deletion.answer = [kind |-> "response", status |-> 404]
    /\ deletion.requests = 1

\* ------------------------------------------------------------------------
\* Properties of the document lifecycle

\* the positions of the DELETE requests
Deletes == {i \in 1..Len(requests) : requests[i].kind = "DELETE"}

\* the operation under way, or the last one, has ended
Ended == op.kind # "none" /\ op.phase = "idle"

\* C21 as stated: a remote DELETE is sent only by the removal of the
\* document.
C21_DeleteOnlyOnRemoval ==
    \A i \in Deletes : requests[i].op = "delete"

\* C21 amended: no DELETE is sent by an update without a new file; a DELETE
\* is sent only by the removal of the document or by an update that brings
\* a new file, and never by the adapter revision whose handleDelete only
\* logs.
C21_NoDeleteOnPlainUpdate ==
    /\ \A i \in Deletes :
           \/ requests[i].op = "delete"
           \/ requests[i].op = "update" /\ requests[i].hasFile
    /\ variant = "intervalDl" => Deletes = {}
    /\ op.kind = "update" /\ ~op.hasFile =>
           /\ op.phase = "idle"
           /\ \A i \in Deletes : requests[i].n # op.n

C21_Witness ==
    /\ Ended
    /\ op.kind = "update" /\ ~op.hasFile
    /\ op.stored # NoStream
    /\ \E i \in Deletes : requests[i].op = "update"

\* C22: once a document that had a streamId is removed, a DELETE for that
\* streamId has been sent by the removal.
C22_RemovalDeletesVideo ==
    ~document.exists /\ op.stored # NoStream =>
        \E i \in Deletes :
            /\ requests[i].streamId = op.stored
            /\ requests[i].n = op.n

\* C23: an update with a new file for a document that has a streamId sends
\* a DELETE for the old streamId before the new upload starts, goes on to
\* the upload whatever the DELETE answers, and on success leaves the new
\* streamId in the record.
C23_ReplaceDeletesOldFirst ==
    op.kind = "update" /\ op.hasFile /\ op.stored # NoStream =>
        /\ op.phase \in {"uploading", "idle"} =>
               \E i \in Deletes, j \in 1..Len(requests) :
                   /\ requests[i].streamId = op.stored
                   /\ requests[i].n = op.n
                   /\ requests[j].kind # "DELETE"
                   /\ requests[j].n = op.n
                   /\ i < j
        /\ Ended /\ op.outcome = "ok" =>
               /\ document.streamId # op.stored
               /\ document.streamId = document.created

\* ------------------------------------------------------------------------
\* Properties of the client transfer and its callbacks

\* the XMLHttpRequest of the direct transfer has ended
XhrEnded == client.xhr.kind # "pending"

\* C24: a direct transfer sends one POST and ends in one outcome: success
\* exactly for a response status in 200..299, failure for any other status
\* and for a transport fault.
C24_DirectTransferOnePost ==
    /\ client.posts = IF client.transfer = "direct" THEN 1 ELSE 0
    /\ XhrEnded =>
           /\ client.transfer = "direct"
           /\ client.pc \in {"done", "failed"}
           /\ client.transferred <=>
                  /\ client.xhr.kind = "load"
                  /\ client.xhr.status \in 200..299
           /\ ~client.transferred =>
                  client.pc = "failed" /\ client.failedAt = "transfer"

C24_Witness ==
    /\ XhrEnded
    /\ client.xhr.status = 300
    /\ client.pc = "failed"
    /\ client.posts = 1

\* C27: a failed upload has called onError exactly once, with stage
\* 'generate-upload-url' exactly when it failed before the issuance
\* response was received and parsed, else with stage 'upload'.
C27_OnErrorOnceWithStage ==
    client.pc = "failed" =>
        /\ Len(client.onError) = 1
        /\ IF client.failedAt \in {"fetch", "status", "json"}
           THEN client.onError[1] = "generate-upload-url"
           ELSE client.onError[1] = "upload"

C27_Witness ==
    /\ client.pc = "failed"
    /\ client.failedAt = "json"
    /\ endpoint.pc = "responded"
    /\ client.onError = <<"generate-upload-url">>

\* C28: onSuccess is called at most once, only after the transfer
\* succeeded, with the streamId of the issuance response, which the handler
\* also returns with status 'processing'; onSuccess and onError are never
\* both called for one upload.
C28_OnSuccessOnceNeverWithOnError ==
    /\ Len(client.onSuccess) <= 1
    /\ client.onSuccess # << >> =>
           /\ client.transferred
           /\ client.onSuccess[1] = endpoint.response.streamId
           /\ client.onError = << >>
           /\ client.pc = "done"
           /\ client.returned =
                  [streamId |-> client.onSuccess[1], status |-> "processing"]

\* ------------------------------------------------------------------------
\* Properties of plugin setup

\* setup has run with accountId or apiToken missing
SetupWithoutCredentials ==
    /\ setup.pc = "returned"
    /\ setup.accountId \in {"none", ""} \/ setup.apiToken \in {"none", ""}

\* C29 as stated: when accountId or apiToken is missing, setup fails with
\* a configuration error (it throws) instead of returning a configuration.
C29_SetupFailsWithoutCredentials ==
    SetupWithoutCredentials => setup.outcome = "thrown"

\* C29 as the code has it: when accountId or apiToken is missing, setup
\* does not fail: it returns the incoming configuration with nothing of
\* the plugin installed, and it has logged the configuration error unless
\* the plugin is disabled or (hooks revision) has no collections.
C29_SetupReturnsIncomingConfig ==
    SetupWithoutCredentials =>
        /\ setup.outcome = "incoming"
        /\ setup.logged <=>
               /\ setup.enabled
               /\ variant = "timeout" => setup.hasCollections

C29_Witness ==
    /\ setup.pc = "returned"
    /\ setup.enabled /\ setup.hasCollections
    /\ setup.accountId = "set" /\ setup.apiToken = ""
    /\ setup.logged
    /\ setup.outcome = "incoming"

\* ------------------------------------------------------------------------
\* Properties of pollers side by side

\* C30: a step of one poller leaves the attempt counter and the timer of
\* every other poller alone, and once a poller has stopped (timer cleared,
\* no tick in flight) nothing it registered with the process is left: its
\* beforeExit listener is gone.
C30_PollersIndependentAndReleased ==
    /\ [][\A p, q \in Pollers :
             p # q /\ event'.p = p =>
                 /\ pollers'[q].attempts = pollers[q].attempts
                 /\ pollers'[q].timer = pollers[q].timer]_vars
    /\ [](\A p \in Pollers : ~Active(p) => ~pollers[p].beforeExit)

\* ------------------------------------------------------------------------
\* Properties of an update without a file

\* an update without a new file has gone through
PlainUpdated ==
    Ended /\ op.kind = "update" /\ ~op.hasFile /\ op.outcome = "ok"

\* C36 as stated: after an update without a new file the stored group is
\* the one stored before, whatever group the update data supplied.
C36_PlainUpdateKeepsStoredGroup ==
    PlainUpdated => document.streamId = op.stored

\* C36 as the code has it: in the hooks revision, after an update without
\* a new file of a document that has a stored group, the stored group is
\* the one stored before, whatever group the update data supplied.
C36_HookRestoresExistingGroup ==
    PlainUpdated /\ variant = "timeout" /\ op.stored # NoStream =>
        document.streamId = op.stored

C36_Witness ==
    /\ PlainUpdated
    /\ variant = "timeout"
    /\ op.group = "supplied"
    /\ op.stored = 1
    /\ document.streamId = 1

\* ------------------------------------------------------------------------
\* Properties of the afterChange hook

Polled == polling.pc # "idle" /\ polling.kind # "statusOnce"

\* C31: handleUpload does not wait for the video to finish processing:
\* the download-URL step issues no repeated status query and never sleeps
\* between status queries.
C31_HandleUploadDoesNotPoll ==
    /\ handled.queries <= 1
    /\ handled.pc = "status" => polling.pc # "waiting"

C33_CallbackThrowSwallowed ==
    /\ [][Polled /\ polling'.throws > polling.throws =>
             /\ polling'.attempts = polling.attempts
             /\ IF polling.attempts < polling.maxAttempts
                THEN polling'.pc = "waiting"
                ELSE polling'.pc = "ended" /\ polling'.outcome = "timeout"]_vars
    /\ [](Polled =>
             /\ polling.outcome # "callbackError"
             /\ polling.throws <= polling.attempts)

C33_Witness ==
    /\ polling.kind = "generic"
    /\ polling.throws = 2
    /\ polling.attempts = 3
    /\ polling.outcome = "returned"

\* C34: with waitUntilReady, a status query that reports the state
\* 'error' ends checkVideoStatus at that attempt with the
\* processing-failed error, and no further status query is issued.
C34_ErrorStateStopsPolling ==
    polling.kind = "status" /\ polling.errorAt > 0 =>
        /\ polling.pc = "ended"
        /\ polling.outcome = "callbackError"
        /\ polling.calls = polling.errorAt

\* C35: when handleUpload has a streamId, the data it returns carries
\* that streamId and a status among processing, ready, error, and the
\* status is 'processing' if the detail query or the download-URL step
\* failed; without a streamId the data is returned as it came.
C35_HandleUploadReturnsGroup ==
    handled.pc = "returned" =>
        IF handled.streamId # "none"
        THEN /\ handled.data.changed
             /\ handled.data.streamId = handled.streamId
             /\ handled.data.status \in {"processing", "ready", "error"}
             /\ handled.failed \in {"details", "download"} =>
                    handled.data.status = "processing"
        ELSE handled.data = Unchanged

C35_Witness ==
    /\ handled.pc = "returned"
    /\ handled.streamId = "uid"
    /\ handled.status = "ready"
    /\ handled.failed = "download"
    /\ handled.data.status = "processing"

====
